---- MODULE Spec2Model ----
(***************************************************************************)
(* A model of optparse (src/optparse.hpp): the option registry, the       *)
(* command-line parser with its configuration-file merge, the typed       *)
(* retrieval with its field split, and the configuration-file codec       *)
(* (dump / load).                                                          *)
(*                                                                         *)
(* A std::string is a sequence of one-character strings, so that the      *)
(* joins, splits, whitespace stripping and stream extraction of the code  *)
(* are computed character by character.  A text file is the sequence of   *)
(* its newline-terminated lines.                                           *)
(***************************************************************************)
EXTENDS Integers, Sequences, FiniteSets, TLC

VARIABLES options, values, program_name, files, parsed, out, used

vars == <<options, values, program_name, files, parsed, out, used>>

-----------------------------------------------------------------------------
(* Bounds of the model.                                                    *)

\* Largest number of tokens after argv[0], summed over the parse calls made
\* on the instance.
MaxArgs == 3

\* Largest template argument n of retrieve<T, n>.
MaxField == 1

\* Largest nargs given to insert_option.
MaxNargs == 2

\* Largest number of lines a configuration file grows to.
MaxFileLines == 8

\* Largest number of lines of the configuration file before the program runs.
MaxInitLines == 1

-----------------------------------------------------------------------------
(* Strings.                                                                *)

\* std::string::npos; every string of the model is shorter.
npos == 2147483647

Min(a, b) == IF a < b THEN a ELSE b

\* The characters isspace() accepts, among those the model uses.
isspace(c) == c \in {" ", "\t"}

\* s.substr(pos, len): the characters at 0-based positions pos .. pos+len-1,
\* cut at the end of s (pos <= size wherever the code calls it).
substr(s, pos, len) == SubSeq(s, pos + 1, pos + Min(len, Len(s) - pos))

\* s.find(c, start): the 0-based position of the first c at or after start.
find(s, c, start) ==
    IF \E k \in (start + 1)..Len(s) : s[k] = c
    THEN (CHOOSE k \in (start + 1)..Len(s) :
             s[k] = c /\ \A j \in (start + 1)..(k - 1) : s[j] # c) - 1
    ELSE npos

\* strspn(s, "-"): the length of the leading run of dashes.
strspn(s) ==
    IF \E k \in 1..Len(s) : s[k] # "-"
    THEN (CHOOSE k \in 1..Len(s) :
             s[k] # "-" /\ \A j \in 1..(k - 1) : s[j] = "-") - 1
    ELSE Len(s)

\* The line left as it was read.
remove_isspace_none(s) == s

\* std::remove_if(isspace) + erase: s without its whitespace characters.
RECURSIVE remove_isspace(_)
remove_isspace(s) ==
    IF s = <<>> THEN <<>>
    ELSE IF isspace(Head(s)) THEN remove_isspace(Tail(s))
    ELSE <<Head(s)>> \o remove_isspace(Tail(s))

\* The character codes std::map's std::less<std::string> compares.
code(c) ==
    CASE c = "\t" -> 9
      [] c = " " -> 32
      [] c = "#" -> 35
      [] c = "," -> 44
      [] c = "-" -> 45
      [] c = "0" -> 48
      [] c = "1" -> 49
      [] c = ":" -> 58
      [] c = "a" -> 97
      [] c = "b" -> 98
      [] c = "d" -> 100
      [] c = "e" -> 101
      [] c = "f" -> 102
      [] c = "h" -> 104
      [] c = "l" -> 108
      [] c = "n" -> 110
      [] c = "o" -> 111
      [] c = "p" -> 112
      [] OTHER -> 127

\* a < b as std::string compares: lexicographic by character code.
RECURSIVE string_less(_, _)
string_less(a, b) ==
    IF b = <<>> THEN FALSE
    ELSE IF a = <<>> THEN TRUE
    ELSE IF code(Head(a)) # code(Head(b)) THEN code(Head(a)) < code(Head(b))
    ELSE string_less(Tail(a), Tail(b))

\* The keys of a std::map in its iteration order.
RECURSIVE map_order(_)
map_order(keys) ==
    IF keys = {} THEN <<>>
    ELSE LET first == CHOOSE k \in keys : \A j \in keys \ {k} : string_less(k, j)
         IN  <<first>> \o map_order(keys \ {first})

-----------------------------------------------------------------------------
(* Typed retrieval: retrieve<T, n>(name).                                  *)

\* The requested types T the model instantiates retrieve with.
Types == {"string", "bool"}

\* The two values of a bool, as retrieve<bool> returns them.
true == <<"true">>
false == <<"false">>

\* The decimal digits among the characters the model uses.
isdigit(c) == c \in {"0", "1"}

digit(c) == IF c = "1" THEN 1 ELSE 0

\* The leading run of characters of s that satisfy no isspace.
RECURSIVE word(_)
word(s) ==
    IF s = <<>> \/ isspace(Head(s)) THEN <<>>
    ELSE <<Head(s)>> \o word(Tail(s))

\* The leading run of digits of s.
RECURSIVE digits(_)
digits(s) ==
    IF s = <<>> \/ ~isdigit(Head(s)) THEN <<>>
    ELSE <<Head(s)>> \o digits(Tail(s))

RECURSIVE number(_, _)
number(ds, acc) ==
    IF ds = <<>> THEN acc
    ELSE number(Tail(ds), Min(10 * acc + digit(Head(ds)), 2))

\* operator>> without the skip of leading whitespace.
skipws_none(s) == s

\* s after the leading whitespace operator>> skips.
RECURSIVE skipws(_)
skipws(s) ==
    IF s # <<>> /\ isspace(Head(s)) THEN skipws(Tail(s)) ELSE s

\* std::stringstream(argument) >> value, for value of type T: whether the
\* extraction succeeds and the value it leaves.  A std::string takes the first
\* whitespace-delimited word; a bool (no boolalpha) is read as a number, which
\* must be 0 or 1.  number() saturates at 2: every larger number fails alike.
extract(argument, T) ==
    LET s == skipws(argument) IN
    IF T = "string"
    THEN [ok |-> word(s) # <<>>, value |-> word(s)]
    ELSE LET neg  == s # <<>> /\ Head(s) = "-"
             body == IF neg THEN Tail(s) ELSE s
             ds   == digits(body)
             v    == number(ds, 0)
         IN  IF ds = <<>> THEN [ok |-> FALSE, value |-> false]
             ELSE IF v = 0 THEN [ok |-> TRUE, value |-> false]
             ELSE IF v = 1 /\ ~neg THEN [ok |-> TRUE, value |-> true]
             ELSE [ok |-> FALSE, value |-> true]

\* The loop of the split lambda, entered with the loop variables i, start, end.
RECURSIVE split_loop(_, _, _, _, _)
split_loop(s, pos, i, start, end) ==
    IF end # npos
    THEN IF i = pos
         THEN substr(s, start, end - start)
         ELSE split_loop(s, pos, i + 1, end + 1, find(s, ",", end + 1))
    ELSE substr(s, start, end)

\* split(s, pos): the field of s the lambda returns for index pos.
split(s, pos) == split_loop(s, pos, 0, 0, find(s, ",", 0))

\* std::to_string with the two digits exchanged.
to_string_swapped(b) == IF b THEN <<"0">> ELSE <<"1">>

\* std::to_string of a bool (promoted to int).
to_string(b) == IF b THEN <<"1">> ELSE <<"0">>

\* What retrieve<T, n>(name) does with the argument string it selected.
converted(argument, T) ==
    IF extract(argument, T).ok
    THEN [kind |-> "value", value |-> extract(argument, T).value]
    ELSE [kind |-> "runtime_error", value |-> argument]

\* retrieve<T, n>(name) on the registry opts and the value store vals: the
\* value returned, or the exception thrown.
retrieve(opts, vals, name, n, T) ==
    IF name \in DOMAIN vals
    THEN converted(split(vals[name], n), T)
    ELSE IF name \in DOMAIN opts /\ Len(opts[name].default_value) # 0
    THEN converted(IF opts[name].nargs = 0
                   THEN to_string(opts[name].default_value # <<"0">>)
                   ELSE split(opts[name].default_value, n), T)
    ELSE [kind |-> "invalid_argument", value |-> name]

\* retrieve<T, U>(name): the outcomes of std::pair(retrieve<T, 0>(name),
\* retrieve<U, 1>(name)).  The two calls are evaluated in either order, so when
\* both throw, either exception may be the one that leaves.
retrieve_pair(opts, vals, name, T, U) ==
    LET a == retrieve(opts, vals, name, 0, T)
        b == retrieve(opts, vals, name, 1, U)
    IN  IF a.kind = "value" /\ b.kind = "value"
        THEN {[kind |-> "value", value |-> <<a.value, b.value>>]}
        ELSE {r \in {a, b} : r.kind # "value"}

-----------------------------------------------------------------------------
(* The registry and the value store.                                       *)

\* The names of the two options the constructor registers.
key_help == <<"h", "e", "l", "p">>
key_load == <<"l", "o", "a", "d">>

\* A parameters struct; the description only feeds the usage text.
parameters(nargs, default_value, user_option) ==
    [nargs |-> nargs, default_value |-> default_value, user_option |-> user_option]

\* A std::map with the entry key -> value added; the caller has checked
\* that key is absent (the !inserted branch of try_emplace).
emplace(map, key, value) ==
    [k \in DOMAIN map \cup {key} |-> IF k = key THEN value ELSE map[k]]

\* map.erase(key).
erase(map, key) == [k \in DOMAIN map \ {key} |-> map[k]]

\* A merge in which the entries of source replace those of target.
merge_overwriting(target, source) ==
    [k \in DOMAIN target \cup DOMAIN source |->
        IF k \in DOMAIN source THEN source[k] ELSE target[k]]

\* target.merge(source): the entries of source whose key target lacks move
\* into target; the entries of target stay as they are.
merge(target, source) ==
    [k \in DOMAIN target \cup DOMAIN source |->
        IF k \in DOMAIN target THEN target[k] ELSE source[k]]

\* The std::map with no entry.
empty_map == [k \in {} |-> <<>>]

\* The registry the constructor leaves: help and load, not user options, with
\* value-initialized (empty) defaults.
constructed ==
    emplace(emplace(empty_map, key_help, parameters(0, <<>>, FALSE)),
            key_load, parameters(1, <<>>, FALSE))

\* usage without its error branch.
usage_always_help(error_message) == 1

\* usage(error_message): the return code (the text goes to std::clog).
usage(error_message) == IF error_message # "" THEN -1 ELSE 1

\* The what() of the exceptions, by the condition that throws them.
MalformedArgument == "argument options must start with a single/double dash"
UnknownOption == "unknow argument"
InsufficientArguments == "insufficient number of argument values"
DuplicateOption == "duplicate option"
MissingArgument == "missing argument(s)"
IOError == "opening file failed"

-----------------------------------------------------------------------------
(* load(pathname).                                                         *)

\* The for loop of load over the lines still to read, with the map built so
\* far: the map returned, or the exception thrown.
RECURSIVE load_loop(_, _, _)
load_loop(opts, lines, acc) ==
    IF lines = <<>> THEN [ok |-> TRUE, values |-> acc, what |-> ""]
    ELSE LET line == remove_isspace(Head(lines)) IN
         IF line = <<>> \/ line[1] = "#"
         THEN load_loop(opts, Tail(lines), acc)
         ELSE LET delimiterPos == find(line, ":", 0)
                  key   == substr(line, 0, delimiterPos)
                  \* delimiterPos + 1 wraps to 0 when delimiterPos is npos
                  value == IF delimiterPos = npos THEN line
                           ELSE substr(line, delimiterPos + 1, npos)
              IN  IF key \notin DOMAIN opts
                  THEN [ok |-> FALSE, values |-> acc, what |-> UnknownOption]
                  ELSE IF key \in DOMAIN acc
                  THEN [ok |-> FALSE, values |-> acc, what |-> DuplicateOption]
                  ELSE load_loop(opts, Tail(lines), emplace(acc, key, value))

\* load(pathname) on the file system fs: a file that is no key of fs cannot
\* be opened.
load(opts, fs, pathname) ==
    IF pathname \notin DOMAIN fs
    THEN [ok |-> FALSE, values |-> empty_map, what |-> IOError]
    ELSE load_loop(opts, fs[pathname], empty_map)

-----------------------------------------------------------------------------
(* parse(argc, argv).                                                      *)

\* value = argv[first]; value += ", " + argv[j] for the following tokens up
\* to argv[last] (0-based indices into argv).
RECURSIVE join(_, _, _)
join(argv, first, last) ==
    IF first = last THEN argv[first + 1]
    ELSE join(argv, first, last - 1) \o <<",", " ">> \o argv[last + 1]

\* The for loop of parse, entered at index i with the value store vals: how
\* the loop is left ("end": i reached argc; "help": the break; "throw"), the
\* value store then, and the index i of the token at which it is left.
RECURSIVE parse_loop(_, _, _, _)
parse_loop(opts, vals, argv, i) ==
    LET argc == Len(argv) IN
    IF ~(i < argc) THEN [left |-> "end", what |-> "", values |-> vals, i |-> i]
    ELSE
    LET idx == strspn(argv[i + 1])
        key == substr(argv[i + 1], idx, npos)
    IN
    IF idx = 0
    THEN [left |-> "throw", what |-> MalformedArgument, values |-> vals, i |-> i]
    ELSE IF key = key_help
    THEN [left |-> "help", what |-> "", values |-> vals, i |-> i]
    ELSE IF key \notin DOMAIN opts
    THEN [left |-> "throw", what |-> UnknownOption, values |-> vals, i |-> i]
    ELSE IF opts[key].nargs # 0 /\ argc - i < opts[key].nargs + 1
    THEN [left |-> "throw", what |-> InsufficientArguments, values |-> vals, i |-> i]
    ELSE
    LET value == IF opts[key].nargs = 0
                 THEN to_string(opts[key].default_value = <<"0">>)
                 ELSE join(argv, i + 1, i + opts[key].nargs)
        last  == i + opts[key].nargs
    IN
    IF key \in DOMAIN vals
    THEN [left |-> "throw", what |-> DuplicateOption, values |-> vals, i |-> last]
    ELSE parse_loop(opts, emplace(vals, key, value), argv, last + 1)

\* A post-processing loop that skips the user options as well.
missing_skipping_all(opts, vals) == <<>>

\* The first option of the post-processing loop that makes it throw: in map
\* order, one other than load and help with no value and an empty default.
missing(opts, vals) ==
    SelectSeq(map_order(DOMAIN opts),
              LAMBDA k : k # key_load /\ k # key_help
                         /\ k \notin DOMAIN vals
                         /\ Len(opts[k].default_value) = 0)

\* The block under `if (ierr == 0x00)`, entered with the value store vals.
post_process(opts, vals, fs) ==
    LET has_load == key_load \in DOMAIN vals
        loaded   == load(opts, fs, vals[key_load])
        merged   == IF has_load THEN erase(merge(vals, loaded.values), key_load)
                    ELSE vals
    IN  IF has_load /\ ~loaded.ok
        THEN [thrown |-> TRUE, what |-> loaded.what, values |-> vals,
              loaded |-> TRUE, validated |-> FALSE]
        ELSE IF missing(opts, merged) # <<>>
        THEN [thrown |-> TRUE, what |-> MissingArgument, values |-> merged,
              loaded |-> has_load, validated |-> TRUE]
        ELSE [thrown |-> FALSE, what |-> "", values |-> merged,
              loaded |-> has_load, validated |-> TRUE]

\* parse without the test `ierr == 0x00` around the post-processing block.
parse_post_after_help(opts, vals, fs, argv) ==
    LET loop == parse_loop(opts, vals, argv, 1)
        post == post_process(opts, loop.values, fs)
    IN  IF loop.left = "throw"
        THEN [ierr |-> usage(loop.what), what |-> loop.what, values |-> loop.values,
              i |-> loop.i, loaded |-> FALSE, validated |-> FALSE]
        ELSE [ierr |-> IF post.thrown THEN usage(post.what)
                       ELSE IF loop.left = "help" THEN usage("") ELSE 0,
              what |-> post.what, values |-> post.values,
              i |-> loop.i, loaded |-> post.loaded, validated |-> post.validated]

\* parse(argc, argv) called with the value store vals: the code returned, the
\* value store left, and what the call did (the index at which the token loop
\* was left, whether load was called, whether the post-processing loop ran).
parse(opts, vals, fs, argv) ==
    LET loop == parse_loop(opts, vals, argv, 1)
        post == post_process(opts, loop.values, fs)
    IN  IF loop.left = "throw"
        THEN [ierr |-> usage(loop.what), what |-> loop.what, values |-> loop.values,
              i |-> loop.i, loaded |-> FALSE, validated |-> FALSE]
        ELSE IF loop.left = "help"
        THEN [ierr |-> usage(""), what |-> "", values |-> loop.values,
              i |-> loop.i, loaded |-> FALSE, validated |-> FALSE]
        ELSE [ierr |-> IF post.thrown THEN usage(post.what) ELSE 0,
              what |-> post.what, values |-> post.values,
              i |-> loop.i, loaded |-> post.loaded, validated |-> post.validated]

-----------------------------------------------------------------------------
(* dump(pathname).                                                         *)

\* The comment line dump writes, "# Created automaticaly by optparse": the
\* text both branches of the strftime test start the line with.  What the
\* first branch puts after it (" on " and the strftime text) stays on the
\* line and is left out.
header == <<"#", " ", "b", "y">>

\* The lines the for loop of dump writes for the options keys, in order.
RECURSIVE dump_lines(_, _, _)
dump_lines(opts, vals, keys) ==
    IF keys = <<>> THEN <<>>
    ELSE LET key == Head(keys)
             rest == dump_lines(opts, vals, Tail(keys))
         IN  IF key \in DOMAIN vals
             THEN <<key \o <<":", " ">> \o vals[key]>> \o rest
             ELSE IF opts[key].user_option
             THEN <<key \o <<":", " ">> \o opts[key].default_value>> \o rest
             ELSE rest

\* Everything one dump call appends: "\n", the comment line, the empty line
\* of std::endl, the option lines, and the closing std::endl.
dump_text(opts, vals) ==
    <<<<>>, header, <<>>>>
        \o dump_lines(opts, vals, map_order(DOMAIN opts)) \o <<<<>>>>

\* Whether std::ofstream(pathname, std::ios::app) opens: the empty path names
\* no file; any other path is opened, and created when absent.
opens_for_append(pathname) == pathname # <<>>

\* dump(pathname): the file system it leaves, or the exception thrown.
dump(opts, vals, fs, pathname) ==
    IF ~opens_for_append(pathname)
    THEN [kind |-> "runtime_error", value |-> <<>>, files |-> fs]
    ELSE LET before == IF pathname \in DOMAIN fs THEN fs[pathname] ELSE <<>>
             text   == dump_text(opts, vals)
         IN  [kind |-> "ok", value |-> text,
              files |-> [p \in DOMAIN fs \cup {pathname} |->
                            IF p = pathname THEN before \o text ELSE fs[p]]]

-----------------------------------------------------------------------------
(* The inputs the model draws from.                                        *)

\* The option name the host registers.
key_n == <<"n">>

\* The path of the configuration file, and the path that cannot be opened.
path_f == <<"f">>

Paths == {path_f, <<>>}

\* The tokens of a command line: --help, --load, -n, f and 0,1.
Tokens ==
    { <<"-", "-">> \o key_help, <<"-", "-">> \o key_load, <<"-">> \o key_n,
      path_f, <<"0", ",", "1">> }

\* The default_value arguments of insert_option.
Defaults == { <<>>, <<"0", ",", "1">> }

\* The lines of the configuration file before the program runs.
Lines == { <<"n", ":", " ", "1">> }

\* The sequences of at most n elements of S.
RECURSIVE SeqUpTo(_, _)
SeqUpTo(S, n) ==
    IF n = 0 THEN {<<>>}
    ELSE SeqUpTo(S, n - 1) \cup
         {Append(q, x) : q \in {r \in SeqUpTo(S, n - 1) : Len(r) = n - 1}, x \in S}

\* The command lines of argv[0] and at most k tokens, for each k.
Argvs == [k \in 0..MaxArgs |-> {<<<<"p">>>> \o q : q \in SeqUpTo(Tokens, k)}]

\* The file systems the program may start in: no file at path_f, or one of
\* one to MaxInitLines lines.
FileSystems ==
    {[p \in {} |-> <<>>]} \cup
    {[p \in {path_f} |-> c] : c \in SeqUpTo(Lines, MaxInitLines) \ {<<>>}}

store_true == 0
store_false == 1

-----------------------------------------------------------------------------
(* The state machine.                                                      *)

\* parsed before the first parse call.
NotParsed ==
    [called |-> FALSE, argv |-> <<>>, pre |-> empty_map, ierr |-> 0, what |-> "",
     i |-> 0, loaded |-> FALSE, validated |-> FALSE]

\* out after a parse call and before the first call.
NoCall == [op |-> "none", name |-> <<>>, n |-> 0, T |-> "", res |-> [kind |-> "none"]]

Init ==
    /\ options = constructed
    /\ values = empty_map
    /\ program_name = <<>>
    /\ files \in FileSystems
    /\ parsed = NotParsed
    /\ out = NoCall
    /\ used = 0

\* insert_option_impl_(name, p).
insert_option_impl_(name, p) ==
    IF name \in DOMAIN options
    THEN /\ out' = [op |-> "insert_option", name |-> name, n |-> 0, T |-> "",
                    res |-> [kind |-> "invalid_argument"]]
         /\ UNCHANGED options
    ELSE /\ out' = [op |-> "insert_option", name |-> name, n |-> 0, T |-> "",
                    res |-> [kind |-> "ok"]]
         /\ options' = emplace(options, name, p)

\* insert_option(name, nargs, description, default_value).  The code accepts
\* the call at any time; the hosts modelled here register their options
\* before the first parse call, which is what ~parsed.called states.
insert_option(name, nargs, default_value) ==
    /\ ~parsed.called
    /\ insert_option_impl_(name, parameters(nargs, default_value, TRUE))
    /\ UNCHANGED <<values, program_name, files, parsed, used>>

\* insert_option_boolean(name, action, description).
insert_option_boolean(name, action) ==
    insert_option(name, 0, IF action = store_true THEN <<"0">> ELSE <<"1">>)

\* parse(argc, argv).  used counts the tokens given to the instance so far
\* (Next takes argv from the command lines that fit into MaxArgs); parsed
\* records the call: its argv, the value store it found, the code returned
\* and what the call did.
Parse(argv) ==
    \E r \in {parse(options, values, files, argv)} :
    /\ used' = used + Len(argv) - 1
    /\ program_name' = argv[1]
    /\ values' = r.values
    /\ parsed' = [called |-> TRUE, argv |-> argv, pre |-> values, ierr |-> r.ierr,
                  what |-> r.what, i |-> r.i, loaded |-> r.loaded,
                  validated |-> r.validated]
    /\ out' = NoCall
    /\ UNCHANGED <<options, files>>

\* retrieve<T, n>(name).
Retrieve(name, n, T) ==
    /\ out' = [op |-> "retrieve", name |-> name, n |-> n, T |-> T,
               res |-> retrieve(options, values, name, n, T)]
    /\ UNCHANGED <<options, values, program_name, files, parsed, used>>

\* retrieve<T, U>(name).
RetrievePair(name, T, U) ==
    /\ \E r \in retrieve_pair(options, values, name, T, U) :
          out' = [op |-> "retrieve_pair", name |-> name, n |-> 0, T |-> <<T, U>>,
                  res |-> r]
    /\ UNCHANGED <<options, values, program_name, files, parsed, used>>

\* dump(pathname).
Dump(pathname) ==
    \E r \in {dump(options, values, files, pathname)} :
    /\ \A p \in DOMAIN r.files : Len(r.files[p]) <= MaxFileLines
    /\ files' = r.files
    /\ out' = [op |-> "dump", name |-> pathname, n |-> 0, T |-> "",
               res |-> [kind |-> r.kind, value |-> r.value]]
    /\ UNCHANGED <<options, values, program_name, parsed, used>>

\* The host's calls that build the registry.
Register ==
    \/ \E name \in {key_n, key_help}, nargs \in 0..MaxNargs, d \in Defaults :
          insert_option(name, nargs, d)
    \/ \E name \in {key_n, key_help}, action \in {store_true, store_false} :
          insert_option_boolean(name, action)

\* The host registers, parses and retrieves.
Next ==
    \/ Register
    \/ \E argv \in Argvs[MaxArgs - used] : Parse(argv)
    \/ \E n \in 0..MaxField, T \in Types : Retrieve(key_n, n, T)
    \/ \E U \in Types : RetrievePair(key_n, "string", U)

Spec == Init /\ [][Next]_vars

\* The host registers, parses and dumps.
NextCodec ==
    \/ Register
    \/ \E argv \in Argvs[MaxArgs - used] : Parse(argv)
    \/ \E pathname \in Paths : Dump(pathname)

SpecCodec == Init /\ [][NextCodec]_vars

-----------------------------------------------------------------------------
(* What the properties below speak about.                                  *)

\* The option name a command-line token stands for: the token without its
\* leading dashes.
KeyOf(token) == substr(token, strspn(token), npos)

\* The index in argv of the token that sets option key, on a command line
\* whose tokens are all option tokens followed by their values; 0 when no
\* token sets it.
RECURSIVE OptionIndex(_, _, _, _)
OptionIndex(opts, argv, i, key) ==
    IF ~(i < Len(argv)) THEN 0
    ELSE IF KeyOf(argv[i + 1]) = key THEN i
    ELSE IF KeyOf(argv[i + 1]) \in DOMAIN opts
    THEN OptionIndex(opts, argv, i + opts[KeyOf(argv[i + 1])].nargs + 1, key)
    ELSE 0

\* The state is the one a parse call has just left.
JustParsed == parsed.called /\ out.op = "none"

\* The last parse call set option key from the command line.
OnCommandLine(key) == OptionIndex(options, parsed.argv, 1, key) # 0

\* The j-th value token (from 0) of option key on the last command line.
ValueToken(key, j) ==
    parsed.argv[OptionIndex(options, parsed.argv, 1, key) + j + 2]

\* Two outcomes of a retrieval agree: the same value, or the same exception.
SameOutcome(a, b) ==
    a.kind = b.kind /\ (a.kind = "value" => a.value = b.value)

\* The token loop of the last parse call, run on the tokens before index j
\* alone.
Before(j) == parse_loop(options, parsed.pre, SubSeq(parsed.argv, 1, j), 1)

\* The token loop of the last parse call reaches the token at index j: the
\* tokens before it are consumed without an exception and without help.
Reaches(j) == j \in 1..(Len(parsed.argv) - 1) /\ Before(j).left = "end"

\* The options other than help and load with neither a value nor a default.
Unsupplied ==
    {k \in DOMAIN options \ {key_help, key_load} :
        k \notin DOMAIN values /\ options[k].default_value = <<>>}

\* The number of fields of a raw string: one more than its commas.
Fields(raw) == Cardinality({k \in 1..Len(raw) : raw[k] = ","}) + 1

-----------------------------------------------------------------------------
(* C1: retrieval recovers the value tokens.                                *)

\* A retrieval of field out.n of a user option of arity k > out.n that the
\* last parse call, which returned 0, set from the command line.
C1_Case ==
    /\ out.op = "retrieve" /\ parsed.called /\ parsed.ierr = 0
    /\ out.name \in DOMAIN options
    /\ options[out.name].user_option
    /\ options[out.name].nargs > out.n
    /\ OnCommandLine(out.name)

\* C1 as stated: for every choice of value tokens, retrieve of field i gives
\* the i-th value token converted to the requested type.
C1_AnyTokens ==
    C1_Case => SameOutcome(out.res, converted(ValueToken(out.name, out.n), out.T))

\* C1, amended: when none of the option's value tokens contains a comma,
\* retrieve of field i gives the i-th value token converted to the requested
\* type.
C1_CommaFreeTokens ==
    (/\ C1_Case
     /\ \A j \in 0..(options[out.name].nargs - 1) :
           find(ValueToken(out.name, j), ",", 0) = npos)
    => SameOutcome(out.res, converted(ValueToken(out.name, out.n), out.T))

\* A second field of a two-value option is retrieved as a value.
C1_Witness ==
    /\ C1_Case
    /\ options[out.name].nargs = 2 /\ out.n = 1
    /\ \A j \in 0..1 : find(ValueToken(out.name, j), ",", 0) = npos
    /\ ValueToken(out.name, 0) # ValueToken(out.name, 1)
    /\ out.res.kind = "value"

-----------------------------------------------------------------------------
(* C2: the command line wins over the configuration file.                  *)

\* The value store the token loop of the last parse call left.
CommandLine == parse_loop(options, parsed.pre, parsed.argv, 1).values

\* What load returns for the path the last command line gave to --load.
FromFile == load(options, files, CommandLine[key_load])

\* C2: after a parse call that processed --load, every name the command line
\* set holds its command-line value, and a name holds a value of the file only
\* if the command line did not set it.
C2_CommandLineWins ==
    (JustParsed /\ parsed.loaded) =>
        /\ \A k \in DOMAIN CommandLine \ {key_load} :
              k \in DOMAIN values /\ values[k] = CommandLine[k]
        /\ \A k \in DOMAIN values \ DOMAIN CommandLine :
              /\ FromFile.ok
              /\ k \in DOMAIN FromFile.values
              /\ values[k] = FromFile.values[k]

\* A parse call returned 0 after a file gave another value for a name the
\* command line had set.
C2_Witness ==
    /\ JustParsed /\ parsed.loaded /\ parsed.ierr = 0
    /\ FromFile.ok
    /\ \E k \in DOMAIN CommandLine \ {key_load} :
          /\ k \in DOMAIN FromFile.values
          /\ FromFile.values[k] # CommandLine[k]
          /\ values[k] = CommandLine[k]

-----------------------------------------------------------------------------
(* C3: the polarity of a flag.                                             *)

\* A retrieve<bool> of an option registered as insert_option_boolean
\* registers it, after a parse call that returned 0.
C3_Case ==
    /\ out.op = "retrieve" /\ out.T = "bool"
    /\ parsed.called /\ parsed.ierr = 0
    /\ out.name \in DOMAIN options
    /\ options[out.name].user_option
    /\ options[out.name].nargs = 0
    /\ options[out.name].default_value \in {<<"0">>, <<"1">>}

\* The bool a store_true flag (default "0") yields when present, and a
\* store_false flag (default "1") when absent.
C3_Yields(b) == out.res.kind = "value" /\ out.res.value = b

\* C3 as stated: a store_true flag is true exactly when it is on the command
\* line, a store_false flag exactly when it is not.
C3_ByCommandLineAlone ==
    C3_Case =>
        IF options[out.name].default_value = <<"0">>
        THEN C3_Yields(IF OnCommandLine(out.name) THEN true ELSE false)
        ELSE C3_Yields(IF OnCommandLine(out.name) THEN false ELSE true)

\* C3, amended: a flag on the command line yields the inverse of its default
\* polarity, and a flag with no entry in the value store yields its default
\* polarity.
C3_PresentOrUnset ==
    C3_Case =>
        /\ OnCommandLine(out.name) =>
              C3_Yields(IF options[out.name].default_value = <<"0">>
                        THEN true ELSE false)
        /\ out.name \notin DOMAIN values =>
              C3_Yields(IF options[out.name].default_value = <<"0">>
                        THEN false ELSE true)

\* A store_true flag on the command line is retrieved.
C3_Witness ==
    /\ C3_Case /\ OnCommandLine(out.name)
    /\ options[out.name].default_value = <<"0">>
    /\ C3_Yields(true)

-----------------------------------------------------------------------------
(* C4: an option with neither a value nor a default.                       *)

\* The options other than help and load with an empty default that neither
\* the last command line nor the file it loaded supplies.
C4_NotSupplied ==
    {k \in DOMAIN options \ {key_help, key_load} :
        /\ options[k].default_value = <<>>
        /\ ~OnCommandLine(k)
        /\ ~(key_load \in DOMAIN CommandLine /\ FromFile.ok
             /\ k \in DOMAIN FromFile.values)}

\* C4 as stated: parse returns -1 whenever such an option exists.
C4_AlwaysMinusOne ==
    (JustParsed /\ C4_NotSupplied # {}) => parsed.ierr = -1

\* C4, amended: parse returns 0 only if every option other than help and
\* load has a value-store entry or a non-empty default; when one has neither,
\* parse returns -1, or 1 when the token loop was left at a help token.
C4_ZeroOnlyIfSupplied ==
    JustParsed =>
        /\ parsed.ierr = 0 => Unsupplied = {}
        /\ Unsupplied # {} =>
              \/ parsed.ierr = -1
              \/ /\ parsed.ierr = 1
                 /\ parsed.i < Len(parsed.argv)
                 /\ KeyOf(parsed.argv[parsed.i + 1]) = key_help

\* The post-processing loop threw for a missing option.
C4_Witness ==
    /\ JustParsed /\ Unsupplied # {}
    /\ parsed.validated /\ parsed.what = MissingArgument /\ parsed.ierr = -1

-----------------------------------------------------------------------------
(* C5: help ends the parse.                                                *)

\* The indices of the help tokens the token loop of the last parse reaches.
C5_HelpReached ==
    {j \in 1..(Len(parsed.argv) - 1) :
        /\ strspn(parsed.argv[j + 1]) > 0
        /\ KeyOf(parsed.argv[j + 1]) = key_help
        /\ Reaches(j)}

\* C5: when the token loop reaches a help token, parse returns 1, leaves the
\* value store as the tokens before that one set it, whatever the tokens after
\* it, and runs neither the load and merge nor the post-processing loop.
C5_HelpStops ==
    JustParsed =>
        \A j \in C5_HelpReached :
            /\ parsed.ierr = 1
            /\ parsed.i = j
            /\ values = Before(j).values
            /\ ~parsed.loaded /\ ~parsed.validated

\* help was reached after a token that set an option and before a token
\* without a dash.
C5_Witness ==
    /\ JustParsed
    /\ \E j \in C5_HelpReached :
          /\ j + 1 < Len(parsed.argv)
          /\ j > 1
          /\ strspn(parsed.argv[j + 2]) = 0
    /\ values # parsed.pre
    /\ parsed.ierr = 1

-----------------------------------------------------------------------------
(* C6: an unregistered option.                                             *)

\* The tokens of the last command line that name an unregistered option.
C6_Unregistered ==
    {j \in 1..(Len(parsed.argv) - 1) :
        /\ strspn(parsed.argv[j + 1]) > 0
        /\ KeyOf(parsed.argv[j + 1]) # key_help
        /\ KeyOf(parsed.argv[j + 1]) \notin DOMAIN options}

\* C6 as stated: with such a token anywhere in argv, parse returns -1 and
\* leaves the value store as it found it.
C6_StoreUntouched ==
    (JustParsed /\ C6_Unregistered # {}) =>
        parsed.ierr = -1 /\ values = parsed.pre

\* C6, amended: when the token loop reaches such a token, parse returns -1
\* and leaves the value store as the tokens before that one set it: the store
\* it found, and the entries of the options those tokens set.  It is the store
\* it found when the token is the first.
C6_StoreOfEarlierTokens ==
    JustParsed =>
        \A j \in C6_Unregistered :
            Reaches(j) =>
                /\ parsed.ierr = -1
                /\ parsed.what = UnknownOption
                /\ values = Before(j).values
                /\ \A k \in DOMAIN parsed.pre :
                      k \in DOMAIN values /\ values[k] = parsed.pre[k]
                /\ j = 1 => values = parsed.pre
                /\ ~parsed.loaded /\ ~parsed.validated

\* An unregistered option was reached after a token that set an option.
C6_Witness ==
    /\ JustParsed
    /\ \E j \in C6_Unregistered : Reaches(j) /\ j > 1
    /\ values # parsed.pre
    /\ parsed.ierr = -1

-----------------------------------------------------------------------------
(* C7: every parse starts afresh.                                          *)

\* C7 as stated: the code a parse call returns and the value store it leaves
\* are those of the same call on an empty value store.
C7_FreshStore ==
    JustParsed =>
        /\ parsed.ierr = parse(options, empty_map, files, parsed.argv).ierr
        /\ values = parse(options, empty_map, files, parsed.argv).values

-----------------------------------------------------------------------------
(* C8: dump, then load.                                                    *)

\* The raw string of an option: its stored value, or its default when unset.
Raw(k) == IF k \in DOMAIN values THEN values[k] ELSE options[k].default_value

\* The user options with a value-store entry or a non-empty default.
C8_Set ==
    {k \in DOMAIN options :
        options[k].user_option /\ (k \in DOMAIN values \/ Raw(k) # <<>>)}

\* load of the path just dumped gives every such option its raw string
\* without whitespace.
C8_RoundTrip ==
    /\ load(options, files, out.name).ok
    /\ \A k \in C8_Set :
          /\ k \in DOMAIN load(options, files, out.name).values
          /\ load(options, files, out.name).values[k] = remove_isspace(Raw(k))

\* The lines of the dumped file that the dump found there.
C8_Found ==
    SubSeq(files[out.name], 1, Len(files[out.name]) - Len(out.res.value))

\* C8 as stated: every dump that succeeds is followed by a load that does.
C8_AnyPath ==
    (out.op = "dump" /\ out.res.kind = "ok") => C8_RoundTrip

\* C8, amended: the round trip holds when the path held no option line
\* before the dump.
C8_FreshPath ==
    (/\ out.op = "dump" /\ out.res.kind = "ok"
     /\ \A k \in 1..Len(C8_Found) :
           \/ remove_isspace(C8_Found[k]) = <<>>
           \/ remove_isspace(C8_Found[k])[1] = "#")
    => C8_RoundTrip

\* A two-field value, joined with ", ", was dumped and is loaded as "f,f".
C8_Witness ==
    /\ out.op = "dump" /\ out.res.kind = "ok"
    /\ C8_Found = <<>>
    /\ key_n \in DOMAIN values
    /\ \E k \in 1..Len(values[key_n]) : isspace(values[key_n][k])
    /\ C8_RoundTrip

-----------------------------------------------------------------------------
(* C9: a field index past the last field.                                  *)

\* C9 as stated: retrieve with a field index that the raw string of an option
\* of arity > 0 has no field for throws the conversion error.
C9_OutOfRangeThrows ==
    (/\ out.op = "retrieve"
     /\ out.name \in DOMAIN options
     /\ options[out.name].nargs > 0
     /\ (out.name \in DOMAIN values \/ Raw(out.name) # <<>>)
     /\ out.n >= Fields(Raw(out.name)))
    => out.res.kind = "runtime_error"

-----------------------------------------------------------------------------
(* C10: the lines dump writes.                                             *)

\* The lines C10 describes, for the options keys in order.
RECURSIVE C10_Lines(_)
C10_Lines(keys) ==
    IF keys = <<>> THEN <<>>
    ELSE IF Head(keys) \in DOMAIN values
    THEN <<Head(keys) \o <<":", " ">> \o values[Head(keys)]>> \o C10_Lines(Tail(keys))
    ELSE IF options[Head(keys)].user_option /\ options[Head(keys)].default_value # <<>>
    THEN <<Head(keys) \o <<":", " ">> \o options[Head(keys)].default_value>>
             \o C10_Lines(Tail(keys))
    ELSE C10_Lines(Tail(keys))

\* C10 as stated: between its comment block and its closing empty line, dump
\* writes exactly those lines.
C10_NoLineWithoutValue ==
    (out.op = "dump" /\ out.res.kind = "ok") =>
        out.res.value =
            <<<<>>, header, <<>>>> \o C10_Lines(map_order(DOMAIN options)) \o <<<<>>>>

====
